---------------------------- MODULE Spec2Model ----------------------------
(***************************************************************************)
(* pwgen-lite (src/pwgen.py): password generation from a configurable      *)
(* alphabet with the secrets source or the HMAC counter stream, and the    *)
(* command-line run that validates the request and prints the result.      *)
(*                                                                         *)
(* Characters are one-character strings, Python str and bytes values are   *)
(* sequences.  Four specifications are given:                              *)
(*   Spec        one run of main()                                         *)
(*   ApiSpec     calls of build_alphabet / generate_password /             *)
(*               generate_password_hmac / bytes_to_password_hmac           *)
(*   RngSpec     HmacRng instances serving sequences of randbytes requests *)
(*   SamplerSpec the rejection loop of bytes_to_password_hmac, one byte    *)
(*               per step, over an arbitrary byte source                   *)
(*                                                                         *)
(* HMAC-SHA256 is a library primitive; hmac_sha256 below is a stand-in: a  *)
(* deterministic function of the whole key and the whole message giving    *)
(* DigestSize bytes that differ from block to block, as the real digests   *)
(* do; what it is used for is which bytes of which block a call returns.   *)
(* The float arithmetic of the strength report (log2, crack time,          *)
(* format_duration) is not modelled: the report is modelled by the lines   *)
(* it prints.                                                              *)
(***************************************************************************)
EXTENDS Integers, Sequences, FiniteSets, TLC

VARIABLES
    args, pc, alphabet, stdout, rng, loop_i, exit_status, os_random, \* main()
    call, ret,                                                 \* ApiSpec
    insts, reqs, outs, served,                                 \* RngSpec
    s_in, s_pc, limit, chars, lastb, lastidx                   \* SamplerSpec

mainVars == <<args, pc, alphabet, stdout, rng, loop_i, exit_status, os_random>>
apiVars == <<call, ret>>
rngVars == <<insts, reqs, outs, served>>
samVars == <<s_in, s_pc, limit, chars, lastb, lastidx>>
vars == <<mainVars, apiVars, rngVars, samVars>>
notMain == <<apiVars, rngVars, samVars>>
notApi == <<mainVars, rngVars, samVars>>
notRng == <<mainVars, apiVars, samVars>>
notSampler == <<mainVars, apiVars, rngVars>>

----------------------------------------------------------------------------
(* Bounds of the model *)

\* largest password length requested
MaxLength == 2
\* largest --count requested
MaxCount == 2
\* largest length asked of generate_password, whose every character is
\* drawn from the whole alphabet
MaxSecretsLength == 1
\* largest length asked of the rejection loop run byte by byte
MaxSampleLength == 1
\* number of requests made of one HmacRng instance
MaxRequests == 2
\* largest counter of an HmacRng instance handed to a call
MaxCounter == 3

(* Program constants *)

\* sha256().digest() is 32 bytes
DigestSize == 32
\* counter.to_bytes(8, "big")
CounterBytes == 8
\* len(seed) != 32
SeedLen == 32
\* a byte takes 256 values: limit = (256 // alph_len) * alph_len
ByteValues == 256

----------------------------------------------------------------------------
(* Sequence helpers *)

RECURSIVE Rep(_, _)
Rep(s, n) == IF n <= 0 THEN <<>> ELSE s \o Rep(s, n - 1)

RECURSIVE Concat(_)
Concat(ss) == IF ss = <<>> THEN <<>> ELSE Head(ss) \o Concat(Tail(ss))

Range(s) == {s[i] : i \in 1..Len(s)}

----------------------------------------------------------------------------
(* Alphabets *)

ascii_lowercase ==
    <<"a", "b", "c", "d", "e", "f", "g", "h", "i", "j", "k", "l", "m",
      "n", "o", "p", "q", "r", "s", "t", "u", "v", "w", "x", "y", "z">>

ascii_uppercase ==
    <<"A", "B", "C", "D", "E", "F", "G", "H", "I", "J", "K", "L", "M",
      "N", "O", "P", "Q", "R", "S", "T", "U", "V", "W", "X", "Y", "Z">>

digits == <<"0", "1", "2", "3", "4", "5", "6", "7", "8", "9">>

\* string.ascii_letters + string.digits
BASE_ALPHABET == ascii_lowercase \o ascii_uppercase \o digits

\* the character ` (U+0060), which a TLA+ string literal cannot hold
GRAVE == "grave"

\* "!@#$%^&*()-_=+[]{}|;:,.<>?/~" and the grave accent
SYMBOLS ==
    <<"!", "@", "#", "$", "%", "^", "&", "*", "(", ")", "-", "_", "=", "+",
      "[", "]", "{", "}", "|", ";", ":", ",", ".", "<", ">", "?", "/", "~",
      GRAVE>>

\* the literal "O0Il1" the exclusion loop runs over
AMBIGUOUS == <<"O", "0", "I", "l", "1">>

\* str.replace(ch, ""): every occurrence of ch removed
replace_with_empty(s, ch) == SelectSeq(s, LAMBDA c : c # ch)

RECURSIVE remove_each(_, _)
remove_each(s, chs) ==
    IF chs = <<>> THEN s
    ELSE remove_each(replace_with_empty(s, Head(chs)), Tail(chs))

build_alphabet_no_digit_one(use_symbols, exclude_ambiguous) ==
    LET assembled == BASE_ALPHABET \o (IF use_symbols THEN SYMBOLS ELSE <<>>)
    IN  IF exclude_ambiguous
        THEN remove_each(assembled, <<"O", "0", "I", "l">>)
        ELSE assembled

build_alphabet_symbols_first(use_symbols, exclude_ambiguous) ==
    LET assembled == (IF use_symbols THEN SYMBOLS ELSE <<>>) \o BASE_ALPHABET
    IN  IF exclude_ambiguous
        THEN remove_each(assembled, AMBIGUOUS)
        ELSE assembled

build_alphabet(use_symbols, exclude_ambiguous) ==
    LET assembled == BASE_ALPHABET \o (IF use_symbols THEN SYMBOLS ELSE <<>>)
    IN  IF exclude_ambiguous
        THEN remove_each(assembled, AMBIGUOUS)
        ELSE assembled

----------------------------------------------------------------------------
(* HmacRng *)

\* b"pwgen-lite-hmac"
CONTEXT == <<112, 119, 103, 101, 110, 45, 108, 105, 116, 101, 45, 104, 109, 97, 99>>

\* int.to_bytes(n, "big"): most significant byte first
RECURSIVE to_bytes_big(_, _)
to_bytes_big(v, n) ==
    IF n = 0 THEN <<>>
    ELSE Append(to_bytes_big(v \div ByteValues, n - 1), v % ByteValues)

Mix(a, b) == (a * a + 131 * b + 7) % 32749

RECURSIVE TreeHash(_, _, _)
TreeHash(bytes, lo, hi) ==
    IF lo > hi THEN 7
    ELSE IF lo = hi THEN Mix(bytes[lo] + 1, lo)
    ELSE LET mid == (lo + hi) \div 2
         IN  Mix(TreeHash(bytes, lo, mid), TreeHash(bytes, mid + 1, hi))

\* stand-in for hmac.new(key, msg, sha256).digest()
hmac_sha256(key, msg) ==
    LET h == Mix(TreeHash(key, 1, Len(key)), TreeHash(msg, 1, Len(msg)))
        g(i) == (h + 131 * i) % 32749
    IN  [i \in 1..DigestSize |-> ((g(i) * g(i)) % 32749) % ByteValues]

\* HmacRng.__init__ with the default context
HmacRng(key) == [key |-> key, context |-> CONTEXT, counter |-> 0]

next_block_without_counter(r) == hmac_sha256(r.key, r.context)

\* one pass of the while loop of randbytes
next_block(r) == hmac_sha256(r.key, to_bytes_big(r.counter, CounterBytes) \o r.context)

RECURSIVE randbytes_loop(_, _, _)
randbytes_loop(r, out, n) ==
    IF Len(out) < n
    THEN randbytes_loop([r EXCEPT !.counter = @ + 1], out \o next_block(r), n)
    ELSE [rng |-> r, bytes |-> SubSeq(out, 1, n)]

\* HmacRng.randbytes(n): the bytes returned and the instance afterwards
randbytes(r, n) == randbytes_loop(r, <<>>, n)

----------------------------------------------------------------------------
(* bytes_to_password_hmac *)

rejection_limit_no_reject(alph_len) == ByteValues

rejection_limit(alph_len) == (ByteValues \div alph_len) * alph_len

RECURSIVE sample_loop_one_more(_, _, _, _)
sample_loop_one_more(length, alph, r, cs) ==
    IF Len(cs) <= length
    THEN LET d == randbytes(r, 1)
             b == d.bytes[1]
         IN  IF b >= rejection_limit(Len(alph))
             THEN sample_loop_one_more(length, alph, d.rng, cs)
             ELSE sample_loop_one_more(length, alph, d.rng,
                                       Append(cs, alph[(b % Len(alph)) + 1]))
    ELSE [status |-> "ok", pw |-> cs, rng |-> r]

RECURSIVE sample_loop(_, _, _, _)
sample_loop(length, alph, r, cs) ==
    IF Len(cs) < length
    THEN LET d == randbytes(r, 1)
             b == d.bytes[1]
         IN  IF b >= rejection_limit(Len(alph))
             THEN sample_loop(length, alph, d.rng, cs)
             ELSE sample_loop(length, alph, d.rng,
                              Append(cs, alph[(b % Len(alph)) + 1]))
    ELSE [status |-> "ok", pw |-> cs, rng |-> r]

\* the password returned (or ValueError) and the instance afterwards
bytes_to_password_hmac(length, alph, r) ==
    IF Len(alph) < 2
    THEN [status |-> "ValueError", pw |-> <<>>, rng |-> r]
    ELSE sample_loop(length, alph, r, <<>>)

----------------------------------------------------------------------------
(* Seeds *)

HexDigits == <<"0", "1", "2", "3", "4", "5", "6", "7", "8", "9",
               "a", "b", "c", "d", "e", "f">>

UpperHexDigits == <<"0", "1", "2", "3", "4", "5", "6", "7", "8", "9",
                    "A", "B", "C", "D", "E", "F">>

IsHexDigit(c) == c \in Range(HexDigits) \cup Range(UpperHexDigits)

hex_value(c) ==
    IF c \in Range(HexDigits)
    THEN (CHOOSE i \in 1..16 : HexDigits[i] = c) - 1
    ELSE (CHOOSE i \in 1..16 : UpperHexDigits[i] = c) - 1

\* bytes.fromhex(text) for a text without white space: ValueError on a
\* character that is no hex digit and on an odd number of digits
fromhex(text) ==
    IF Len(text) % 2 # 0 \/ \E i \in 1..Len(text) : ~IsHexDigit(text[i])
    THEN [ok |-> FALSE, bytes |-> <<>>]
    ELSE [ok |-> TRUE,
          bytes |-> [i \in 1..(Len(text) \div 2) |->
                        16 * hex_value(text[2 * i - 1]) + hex_value(text[2 * i])]]

\* --seed-hex values tried: two well-formed seeds, 31 and 33 bytes, no
\* bytes, a text that is not hex, an odd number of digits
SeedHexSamples ==
    { Rep(<<"0", "0">>, SeedLen),
      Rep(<<"a", "7", "F", "e">>, SeedLen \div 2),
      Rep(<<"a", "b">>, SeedLen - 1),
      Rep(<<"a", "b">>, SeedLen + 1),
      Rep(<<"z", "z">>, SeedLen),
      <<"a", "b", "c">>,
      <<>> }

\* values os.urandom(32) is let return
UrandomSamples == { Rep(<<17, 250>>, SeedLen \div 2), Rep(<<3, 141, 59, 26>>, SeedLen \div 4) }

\* indices secrets.choice(alphabet) is let pick in a run of main()
MainChoiceSamples(alph) == {1, Len(alph)}

----------------------------------------------------------------------------
(* main() *)

NoRng == [key |-> <<>>, context |-> <<>>, counter |-> 0]

Line(kind, text, n) == [kind |-> kind, text |-> text, n |-> n]

ErrorKinds == {"error_count", "error_length", "error_hex", "error_seed_len"}

\* the lines of the strength block: alphabet, entropy, scenario, blank
StrengthLines(L, A) ==
    << Line("alphabet", <<>>, A), Line("entropy", <<>>, L),
       Line("scenario", <<>>, 0), Line("blank", <<>>, 0) >>

PasswordsOf(out) == SelectSeq(out, LAMBDA l : l.kind = "password")
StrengthOf(out) ==
    SelectSeq(out, LAMBDA l : l.kind \in {"alphabet", "entropy", "scenario", "blank"})
ErrorsOf(out) == SelectSeq(out, LAMBDA l : l.kind \in ErrorKinds)

Lengths == -1..MaxLength
Counts == -1..MaxCount
Modes == {"secrets", "hmac"}

ArgsSpace ==
    [length : Lengths, count : Counts, symbols : BOOLEAN,
     exclude_ambiguous : BOOLEAN, mode : Modes, no_strength : BOOLEAN,
     seed_given : BOOLEAN, seed_hex : SeedHexSamples]

NoCall ==
    [fn |-> "none", length |-> 0, use_symbols |-> FALSE,
     exclude_ambiguous |-> FALSE, key |-> <<>>, counter |-> 0]

IdleApi == call = NoCall /\ ret = <<>>

IdleMain ==
    /\ args = [length |-> 0, count |-> 0, symbols |-> FALSE,
               exclude_ambiguous |-> FALSE, mode |-> "secrets",
               no_strength |-> TRUE, seed_given |-> FALSE, seed_hex |-> <<>>]
    /\ pc = "idle" /\ alphabet = <<>> /\ stdout = <<>> /\ rng = NoRng
    /\ loop_i = 0 /\ exit_status = -1 /\ os_random = 0
IdleRng == insts = <<>> /\ reqs = <<>> /\ outs = <<>> /\ served = <<>>
IdleSampler ==
    s_in = [length |-> 0, alph_len |-> 0] /\ s_pc = "idle" /\ limit = 0
    /\ chars = <<>> /\ lastb = -1 /\ lastidx = -1

\* parse_arguments() has returned; seed_hex is None when seed_given is FALSE
Init ==
    /\ args \in {a \in ArgsSpace : ~a.seed_given => a.seed_hex = <<>>}
    /\ pc = "validate"
    /\ alphabet = <<>>
    /\ stdout = <<>>
    /\ rng = NoRng
    /\ loop_i = 0
    /\ exit_status = -1
    /\ os_random = 0
    /\ IdleApi /\ IdleRng /\ IdleSampler

Exit(kind) ==
    /\ stdout' = Append(stdout, Line(kind, <<>>, 0))
    /\ exit_status' = 2
    /\ pc' = "exited"

RejectCount ==
    /\ pc = "validate"
    /\ args.count <= 0
    /\ Exit("error_count")
    /\ UNCHANGED <<args, alphabet, rng, loop_i, os_random, notMain>>

RejectLength ==
    /\ pc = "validate"
    /\ args.count > 0
    /\ args.length <= 0
    /\ Exit("error_length")
    /\ UNCHANGED <<args, alphabet, rng, loop_i, os_random, notMain>>

BuildAlphabet ==
    /\ pc = "validate"
    /\ args.count > 0
    /\ args.length > 0
    /\ alphabet' = build_alphabet(args.symbols, args.exclude_ambiguous)
    /\ pc' = "strength"
    /\ UNCHANGED <<args, stdout, rng, loop_i, exit_status, os_random, notMain>>

PrintStrength ==
    /\ pc = "strength"
    /\ ~args.no_strength
    /\ stdout' = stdout \o StrengthLines(args.length, Len(alphabet))
    /\ pc' = "seed"
    /\ UNCHANGED <<args, alphabet, rng, loop_i, exit_status, os_random, notMain>>

SkipStrength ==
    /\ pc = "strength"
    /\ args.no_strength
    /\ pc' = "seed"
    /\ UNCHANGED <<args, alphabet, stdout, rng, loop_i, exit_status, os_random, notMain>>

SecretsMode ==
    /\ pc = "seed"
    /\ args.mode # "hmac"
    /\ pc' = "generate"
    /\ UNCHANGED <<args, alphabet, stdout, rng, loop_i, exit_status, os_random, notMain>>

SeedInvalidHex ==
    /\ pc = "seed"
    /\ args.mode = "hmac"
    /\ args.seed_given
    /\ ~fromhex(args.seed_hex).ok
    /\ Exit("error_hex")
    /\ UNCHANGED <<args, alphabet, rng, loop_i, os_random, notMain>>

SeedWrongLengthAccepted ==
    /\ pc = "seed"
    /\ args.mode = "hmac"
    /\ args.seed_given
    /\ fromhex(args.seed_hex).ok
    /\ Len(fromhex(args.seed_hex).bytes) # SeedLen
    /\ rng' = HmacRng(fromhex(args.seed_hex).bytes)
    /\ pc' = "generate"
    /\ UNCHANGED <<args, alphabet, stdout, loop_i, exit_status, os_random, notMain>>

SeedWrongLength ==
    /\ pc = "seed"
    /\ args.mode = "hmac"
    /\ args.seed_given
    /\ fromhex(args.seed_hex).ok
    /\ Len(fromhex(args.seed_hex).bytes) # SeedLen
    /\ Exit("error_seed_len")
    /\ UNCHANGED <<args, alphabet, rng, loop_i, os_random, notMain>>

SeedFromHex ==
    /\ pc = "seed"
    /\ args.mode = "hmac"
    /\ args.seed_given
    /\ fromhex(args.seed_hex).ok
    /\ Len(fromhex(args.seed_hex).bytes) = SeedLen
    /\ rng' = HmacRng(fromhex(args.seed_hex).bytes)
    /\ pc' = "generate"
    /\ UNCHANGED <<args, alphabet, stdout, loop_i, exit_status, os_random, notMain>>

SeedFromUrandom ==
    /\ pc = "seed"
    /\ args.mode = "hmac"
    /\ ~args.seed_given
    /\ \E seed \in UrandomSamples : rng' = HmacRng(seed)
    /\ os_random' = os_random + 1
    /\ pc' = "generate"
    /\ UNCHANGED <<args, alphabet, stdout, loop_i, exit_status, notMain>>

\* pw = "".join(secrets.choice(alphabet) for _ in range(args.length)); print(pw)
GenerateSecrets ==
    /\ pc = "generate"
    /\ loop_i < args.count
    /\ args.mode = "secrets"
    /\ \E pick \in [1..args.length -> MainChoiceSamples(alphabet)] :
          stdout' = Append(stdout,
              Line("password", [k \in 1..args.length |-> alphabet[pick[k]]], 0))
    /\ os_random' = os_random + args.length
    /\ loop_i' = loop_i + 1
    /\ UNCHANGED <<args, pc, alphabet, rng, exit_status, notMain>>

main_hmac_password_fresh_rng(length, alph, r) ==
    bytes_to_password_hmac(length, alph, HmacRng(r.key))

\* pw = bytes_to_password_hmac(args.length, alphabet, rng)
main_hmac_password(length, alph, r) == bytes_to_password_hmac(length, alph, r)

GenerateHmac ==
    /\ pc = "generate"
    /\ loop_i < args.count
    /\ args.mode # "secrets"
    /\ LET res == main_hmac_password(args.length, alphabet, rng)
       IN  /\ res.status = "ok"
           /\ stdout' = Append(stdout, Line("password", res.pw, 0))
           /\ rng' = res.rng
    /\ loop_i' = loop_i + 1
    /\ UNCHANGED <<args, pc, alphabet, exit_status, os_random, notMain>>

Return ==
    /\ pc = "generate"
    /\ loop_i >= args.count
    /\ pc' = "exited"
    /\ exit_status' = 0
    /\ UNCHANGED <<args, alphabet, stdout, rng, loop_i, os_random, notMain>>

Next ==
    \/ RejectCount \/ RejectLength \/ BuildAlphabet
    \/ PrintStrength \/ SkipStrength
    \/ SecretsMode \/ SeedInvalidHex \/ SeedWrongLength
    \/ SeedFromHex \/ SeedFromUrandom
    \/ GenerateSecrets \/ GenerateHmac \/ Return

Spec == Init /\ [][Next]_vars

----------------------------------------------------------------------------
(* Claims about main() *)

PasswordTexts(out) ==
    [k \in 1..Len(PasswordsOf(out)) |-> PasswordsOf(out)[k].text]

SeedBad(a) ==
    a.seed_given
    /\ (~fromhex(a.seed_hex).ok \/ Len(fromhex(a.seed_hex).bytes) # SeedLen)

EmitsExactly(out, count, length) ==
    /\ Len(PasswordsOf(out)) = count
    /\ \A k \in 1..Len(PasswordsOf(out)) : Len(PasswordsOf(out)[k].text) = length

C4_NoOutputBeforeRejection ==
    exit_status = 2 =>
        /\ StrengthOf(stdout) = <<>>
        /\ PasswordsOf(stdout) = <<>>
        /\ os_random = 0

\* C5: in hmac mode the passwords emitted so far, concatenated, are the one
\* password of length (number emitted) * length that a fresh instance with
\* the same seed gives, and the instance's counter is where that single
\* call leaves it: the stream continues and is never restarted.
C5_OneContinuousStream ==
    args.mode = "hmac" /\ pc \in {"generate", "exited"} /\ exit_status # 2 =>
        LET k == Len(PasswordsOf(stdout))
            ref == bytes_to_password_hmac(k * args.length, alphabet, HmacRng(rng.key))
        IN  /\ k = loop_i
            /\ Concat(PasswordTexts(stdout)) = ref.pw
            /\ rng.counter = ref.rng.counter

\* MaxCount passwords emitted from one instance, at least one byte rejected
C5_Witness ==
    /\ pc = "exited"
    /\ args.mode = "hmac"
    /\ args.count >= 2
    /\ Len(PasswordsOf(stdout)) = args.count
    /\ rng.counter > args.count * args.length

----------------------------------------------------------------------------
(* ApiSpec: one call of one of the module's functions per behaviour *)

\* 32-byte seeds passed to generate_password_hmac and HmacRng
SeedSamples == UrandomSamples \cup { Rep(<<0>>, SeedLen) }

\* HmacRng instances as a caller may hold them: any seed, any blocks drawn
RngSamples ==
    { [HmacRng(seed) EXCEPT !.counter = c] : seed \in SeedSamples, c \in 0..MaxCounter }

ApiInit == IdleApi /\ IdleMain /\ IdleRng /\ IdleSampler

CallBuildAlphabet ==
    /\ call.fn = "none"
    /\ \E sym \in BOOLEAN, excl \in BOOLEAN :
          /\ call' = [NoCall EXCEPT !.fn = "build_alphabet", !.use_symbols = sym,
                                    !.exclude_ambiguous = excl]
          /\ ret' = build_alphabet(sym, excl)
    /\ UNCHANGED notApi

\* "".join(secrets.choice(alphabet) for _ in range(length))
CallGeneratePassword ==
    /\ call.fn = "none"
    /\ \E length \in -1..MaxSecretsLength, sym \in BOOLEAN, excl \in BOOLEAN :
          LET alph == build_alphabet(sym, excl)
          IN  \E pick \in [1..length -> 1..Len(alph)] :
                 /\ call' = [NoCall EXCEPT !.fn = "generate_password",
                                !.length = length, !.use_symbols = sym,
                                !.exclude_ambiguous = excl]
                 /\ ret' = [k \in 1..length |-> alph[pick[k]]]
    /\ UNCHANGED notApi

CallGeneratePasswordHmac ==
    /\ call.fn = "none"
    /\ \E length \in Lengths, sym \in BOOLEAN, excl \in BOOLEAN, seed \in SeedSamples :
          /\ call' = [NoCall EXCEPT !.fn = "generate_password_hmac",
                         !.length = length, !.use_symbols = sym,
                         !.exclude_ambiguous = excl, !.key = seed]
          /\ ret' = bytes_to_password_hmac(length, build_alphabet(sym, excl),
                                           HmacRng(seed)).pw
    /\ UNCHANGED notApi

CallBytesToPasswordHmac ==
    /\ call.fn = "none"
    /\ \E length \in Lengths, sym \in BOOLEAN, excl \in BOOLEAN, r \in RngSamples :
          /\ call' = [NoCall EXCEPT !.fn = "bytes_to_password_hmac",
                         !.length = length, !.use_symbols = sym,
                         !.exclude_ambiguous = excl, !.key = r.key,
                         !.counter = r.counter]
          /\ ret' = bytes_to_password_hmac(length, build_alphabet(sym, excl), r).pw
    /\ UNCHANGED notApi

ApiNext ==
    \/ CallBuildAlphabet
    \/ CallGeneratePassword
    \/ CallGeneratePasswordHmac
    \/ CallBytesToPasswordHmac

ApiSpec == ApiInit /\ [][ApiNext]_vars

Generators == {"generate_password", "generate_password_hmac", "bytes_to_password_hmac"}

\* C1: a password returned for a length > 0 has exactly length characters,
\* each a member of build_alphabet for the flags of the call.
C1_LengthAndMembership ==
    call.fn \in Generators /\ call.length > 0 =>
        /\ Len(ret) = call.length
        /\ \A k \in 1..Len(ret) :
              ret[k] \in Range(build_alphabet(call.use_symbols, call.exclude_ambiguous))

\* a password of the largest length from an instance that has drawn blocks
C1_Witness ==
    /\ call.fn = "bytes_to_password_hmac"
    /\ call.length = MaxLength
    /\ call.counter > 0
    /\ call.use_symbols /\ call.exclude_ambiguous
    /\ Len(ret) = MaxLength

LettersAndDigits ==
    Range(ascii_lowercase) \cup Range(ascii_uppercase) \cup Range(digits)

NoDuplicates(s) == Cardinality(Range(s)) = Len(s)

\* C7 as stated: without exclusion the alphabet is the 62 letters and
\* digits, and with symbols it is those followed by 30 duplicate-free
\* punctuation characters, 92 distinct characters in all.
C7_ThirtySymbols ==
    call.fn = "build_alphabet" /\ ~call.exclude_ambiguous =>
        /\ Range(SubSeq(ret, 1, 62)) = LettersAndDigits
        /\ ~call.use_symbols => Len(ret) = 62
        /\ call.use_symbols =>
              /\ Len(ret) = 62 + 30
              /\ Cardinality(Range(ret)) = 92

\* C7 amended: without exclusion the alphabet is the 62 letters and digits,
\* and with symbols it is those followed by the fixed set of 29
\* duplicate-free punctuation characters, 91 distinct characters in all.
C7_TwentyNineSymbols ==
    call.fn = "build_alphabet" /\ ~call.exclude_ambiguous =>
        /\ Range(SubSeq(ret, 1, 62)) = LettersAndDigits
        /\ ~call.use_symbols => Len(ret) = 62
        /\ call.use_symbols =>
              /\ Len(ret) = 62 + 29
              /\ SubSeq(ret, 63, Len(ret)) = SYMBOLS
              /\ NoDuplicates(SubSeq(ret, 63, Len(ret)))
              /\ Range(SubSeq(ret, 63, Len(ret))) \cap LettersAndDigits = {}
              /\ Cardinality(Range(ret)) = 91

C7_Witness ==
    /\ call.fn = "build_alphabet"
    /\ call.use_symbols /\ ~call.exclude_ambiguous
    /\ Len(ret) = 91

AmbiguousChars == {"O", "0", "I", "l", "1"}

\* C8: with exclude_ambiguous, build_alphabet returns the assembled alphabet
\* with every O, 0, I, l, 1 removed and everything else kept in place, and
\* no generated password holds one of the five.
C8_NoAmbiguousCharacter ==
    call.exclude_ambiguous =>
        /\ call.fn = "build_alphabet" =>
              /\ ret = SelectSeq(BASE_ALPHABET \o (IF call.use_symbols THEN SYMBOLS ELSE <<>>),
                                 LAMBDA c : c \notin AmbiguousChars)
              /\ Len(ret) = (IF call.use_symbols THEN 91 ELSE 62) - 5
        /\ call.fn \in Generators => Range(ret) \cap AmbiguousChars = {}

\* a secrets password of the largest length drawn from the reduced alphabet
C8_Witness ==
    /\ call.fn = "generate_password"
    /\ call.exclude_ambiguous
    /\ call.length = MaxSecretsLength
    /\ Len(ret) = MaxSecretsLength
    /\ ret[1] = "9"

----------------------------------------------------------------------------
(* RngSpec: two HmacRng instances built from one seed, each serving the    *)
(* same requests in the same order, at its own pace                        *)

Instances == {1, 2}

\* sizes asked of randbytes: none, one byte, around one block, two blocks
RequestSizes == {0, 1, DigestSize - 1, DigestSize, DigestSize + 1, 2 * DigestSize + 1}

Requests ==
    [op : {"randbytes"}, n : RequestSizes, use_symbols : {FALSE}]
    \cup [op : {"password"}, n : 1..MaxLength, use_symbols : BOOLEAN]

RngInit ==
    /\ \E seed \in SeedSamples : insts = [i \in Instances |-> HmacRng(seed)]
    /\ reqs = <<>>
    /\ outs = [i \in Instances |-> <<>>]
    /\ served = [i \in Instances |-> <<>>]
    /\ IdleMain /\ IdleApi /\ IdleSampler

instance_state_shared_counter(i) ==
    [insts[i] EXCEPT !.counter = insts[1].counter + insts[2].counter]

\* self: the attributes of instance i
instance_state(i) == insts[i]

\* the result of request q on instance i and the instance afterwards
Serve(i, q) ==
    IF q.op = "randbytes"
    THEN LET d == randbytes(instance_state(i), q.n)
         IN  [out |-> d.bytes, rng |-> d.rng]
    ELSE LET d == bytes_to_password_hmac(q.n, build_alphabet(q.use_symbols, FALSE),
                                         instance_state(i))
         IN  [out |-> d.pw, rng |-> d.rng]

Served(i, q) ==
    /\ insts' = [insts EXCEPT ![i] = Serve(i, q).rng]
    /\ outs' = [outs EXCEPT ![i] = Append(@, Serve(i, q).out)]
    /\ served' = [served EXCEPT ![i] = Append(@, insts[i].counter)]

\* a new randbytes(n) request, served by the instance that is ahead
IssueRandbytes ==
    /\ Len(reqs) < MaxRequests
    /\ \E i \in Instances, q \in Requests :
          /\ q.op = "randbytes"
          /\ Len(outs[i]) = Len(reqs)
          /\ reqs' = Append(reqs, q)
          /\ Served(i, q)
    /\ UNCHANGED notRng

\* a new bytes_to_password_hmac request, served by the instance that is ahead
IssuePassword ==
    /\ Len(reqs) < MaxRequests
    /\ \E i \in Instances, q \in Requests :
          /\ q.op = "password"
          /\ Len(outs[i]) = Len(reqs)
          /\ reqs' = Append(reqs, q)
          /\ Served(i, q)
    /\ UNCHANGED notRng

\* the instance that is behind serves its next request
Replay ==
    /\ \E i \in Instances :
          /\ Len(outs[i]) < Len(reqs)
          /\ Served(i, reqs[Len(outs[i]) + 1])
    /\ UNCHANGED <<reqs, notRng>>

RngNext == IssueRandbytes \/ IssuePassword \/ Replay

RngSpec == RngInit /\ [][RngNext]_vars

MinOf(a, b) == IF a < b THEN a ELSE b

\* C2: two instances with the same seed, given the same requests, return
\* identical results at every request both have served, randbytes results
\* and passwords alike.
C2_Determinism ==
    /\ \A k \in 1..MinOf(Len(outs[1]), Len(outs[2])) : outs[1][k] = outs[2][k]
    /\ Len(outs[1]) = Len(outs[2]) => insts[1].counter = insts[2].counter

\* both instances have served a block-crossing and a password request
C2_Witness ==
    /\ Len(reqs) = MaxRequests
    /\ Len(outs[1]) = MaxRequests /\ Len(outs[2]) = MaxRequests
    /\ reqs[1].op = "randbytes" /\ reqs[1].n = DigestSize + 1
    /\ reqs[2].op = "password"
    /\ outs[1][2] # <<>>

RECURSIVE SumN(_)
SumN(qs) == IF qs = <<>> THEN 0 ELSE Head(qs).n + SumN(Tail(qs))

AllRandbytes(qs) == \A k \in 1..Len(qs) : qs[k].op = "randbytes"

\* block(c) = HMAC(seed, c as 8 big-endian bytes || context)
Block(key, c) == hmac_sha256(key, to_bytes_big(c, CounterBytes) \o CONTEXT)

RECURSIVE BlockStream(_, _, _)
BlockStream(key, c, blocks) ==
    IF blocks <= 0 THEN <<>> ELSE Block(key, c) \o BlockStream(key, c + 1, blocks - 1)

BlocksFor(n) == (n + DigestSize - 1) \div DigestSize

\* C9 as stated: the results of the randbytes requests served by an
\* instance, concatenated, are the first n1+...+nk bytes of
\* block(0) || block(1) || ..., however the requests are chunked.
C9_ChunkingInvariant ==
    \A i \in Instances :
        LET done == SubSeq(reqs, 1, Len(outs[i]))
        IN  AllRandbytes(done) =>
               Concat(outs[i]) =
                   SubSeq(BlockStream(insts[i].key, 0, BlocksFor(SumN(done))), 1, SumN(done))

\* C9 amended: randbytes keeps no buffer between calls.  The k-th result is
\* the first n_k bytes of the ceil(n_k/32) blocks that start at the counter
\* the call found, which is the number of blocks the earlier calls drew, and
\* the rest of the last block is dropped; the concatenation is the stream of
\* one fresh call when every request but the last is a multiple of 32 bytes.
C9_BlocksPerRequest ==
    \A i \in Instances :
        LET done == SubSeq(reqs, 1, Len(outs[i]))
        IN  AllRandbytes(done) =>
               /\ \A k \in 1..Len(done) :
                     /\ served[i][k] =
                           (IF k = 1 THEN 0
                            ELSE served[i][k - 1] + BlocksFor(done[k - 1].n))
                     /\ outs[i][k] =
                           SubSeq(BlockStream(insts[i].key, served[i][k],
                                              BlocksFor(done[k].n)), 1, done[k].n)
               /\ (done # <<>> =>
                     insts[i].counter =
                        served[i][Len(done)] + BlocksFor(done[Len(done)].n))
               /\ (\A k \in 1..(Len(done) - 1) : done[k].n % DigestSize = 0) =>
                     Concat(outs[i]) =
                        randbytes(HmacRng(insts[i].key), SumN(done)).bytes

\* a block-crossing request followed by a one-byte request
C9_Witness ==
    /\ Len(outs[1]) = 2
    /\ reqs[1].op = "randbytes" /\ reqs[1].n = DigestSize + 1
    /\ reqs[2].op = "randbytes" /\ reqs[2].n = 1
    /\ insts[1].counter = 3

----------------------------------------------------------------------------
(* SamplerSpec: bytes_to_password_hmac one byte per step.  rng.randbytes(1) *)
(* may return any byte; the alphabet has alph_len distinct characters,      *)
(* written as their indices 0..alph_len-1.                                  *)

\* alphabet sizes tried: below the check, small, the four built-in sizes,
\* one that does not divide 256, 128, around 256 and above
AlphabetSizes == {0, 1, 2, 3, 37, 57, 62, 86, 91, 128, 255, 256, 257, 300}

\* every length up to the bound for the sizes above, and every size from 0
\* to one past the number of byte values for the lengths 0 and 1
SamplerRequests ==
    [length : 0..MaxSampleLength, alph_len : AlphabetSizes]
    \cup [length : {0, 1}, alph_len : 0..(ByteValues + 1)]

SamplerInit ==
    /\ s_in \in SamplerRequests
    /\ s_pc = "call"
    /\ limit = -1
    /\ chars = <<>>
    /\ lastb = -1
    /\ lastidx = -1
    /\ IdleMain /\ IdleApi /\ IdleRng

\* raise ValueError("Alphabet too small.")
RaiseTooSmall ==
    /\ s_pc = "call"
    /\ s_in.alph_len < 2
    /\ s_pc' = "raised"
    /\ UNCHANGED <<s_in, limit, chars, lastb, lastidx, notSampler>>

ComputeLimit ==
    /\ s_pc = "call"
    /\ ~(s_in.alph_len < 2)
    /\ limit' = rejection_limit(s_in.alph_len)
    /\ s_pc' = "loop"
    /\ UNCHANGED <<s_in, chars, lastb, lastidx, notSampler>>

\* b >= limit: continue
DrawRejected ==
    /\ s_pc = "loop"
    /\ Len(chars) < s_in.length
    /\ \E b \in 0..(ByteValues - 1) :
          /\ b >= limit
          /\ lastb' = b
          /\ lastidx' = -1
    /\ UNCHANGED <<s_in, s_pc, limit, chars, notSampler>>

\* chars.append(alphabet[b % alph_len])
DrawAccepted ==
    /\ s_pc = "loop"
    /\ Len(chars) < s_in.length
    /\ \E b \in 0..(ByteValues - 1) :
          /\ ~(b >= limit)
          /\ lastb' = b
          /\ lastidx' = b % s_in.alph_len
          /\ chars' = Append(chars, b % s_in.alph_len)
    /\ UNCHANGED <<s_in, s_pc, limit, notSampler>>

ReturnPassword ==
    /\ s_pc = "loop"
    /\ ~(Len(chars) < s_in.length)
    /\ s_pc' = "returned"
    /\ UNCHANGED <<s_in, limit, chars, lastb, lastidx, notSampler>>

SamplerNext ==
    \/ RaiseTooSmall \/ ComputeLimit
    \/ DrawRejected \/ DrawAccepted
    \/ ReturnPassword

SamplerSpec == SamplerInit /\ [][SamplerNext]_vars

C10_LimitAtLeastAlphabetSize ==
    /\ s_in.alph_len < 2 => s_pc \in {"call", "raised"} /\ lastb = -1
    /\ s_pc \in {"loop", "returned"} =>
          /\ limit >= s_in.alph_len
          /\ limit > 0
    /\ s_pc = "loop" /\ Len(chars) < s_in.length =>
          \E b \in 0..(ByteValues - 1) : b < limit
    /\ s_pc = "returned" => Len(chars) = s_in.length

=============================================================================
